---- MODULE Spec2Model ----
(***************************************************************************)
(* Resource registries, shader cache, scene traversal and draw dispatch of *)
(* the WebGL renderer (renderer.rs), the PBR material (pbr_material.rs)    *)
(* and the glTF accessor import (gltf_util.rs).                            *)
(***************************************************************************)
EXTENDS Integers, Sequences, FiniteSets, TLC

VARIABLES
  renderer,   \* the Renderer: its arenas, its scene and its shader cache
  ctx,        \* the graphics context: how often it created a shader, a buffer
  frame,      \* the context calls of the render_scene call made since the last edit
  panicked,   \* an unwrap or panic! has aborted the program
  issued,     \* the handles the callers' arena inserts returned
  tags_seen,  \* the tags of the materials passed to insert_material
  gltf,       \* the document passed to create_gltf_attributes, if one was
  imported,   \* the accessor list create_gltf_attributes returned, if it returned
  gltf_meshes \* the meshes create_gltf_meshes returned, if it was called

vars == <<renderer, ctx, frame, panicked, issued, tags_seen, gltf, imported, gltf_meshes>>

\* ------------------------------------------------------------------ bounds
MaxBuffers == 1
MaxAccessors == 2
MaxGeometries == 1
MaxMaterials == 1
MaxMeshes == 1
MaxCameras == 1
MaxNodes == 3
MaxAccessorDefs == 3
MaxViews == 2
MaxPrimitives == 2
MaxGen == 2

\* ------------------------------------------------------------------ options
None == <<>>
Some(v) == <<v>>
IsSome(o) == Len(o) = 1
Unwrap(o) == o[1]

\* ------------------------------------------------------------------ arena
Idx(i, g) == [index |-> i, generation |-> g]

Occupied(g, v) == [occ |-> TRUE, generation |-> g, value |-> v]
Free(n) == [occ |-> FALSE, next_free |-> n]

EmptyArena == [items |-> <<>>, generation |-> 0, free_list_head |-> None, len |-> 0]

\* The slot the next insert takes: the head of the free list, else a new slot.
NextSlot(a) == IF IsSome(a.free_list_head) THEN Unwrap(a.free_list_head) ELSE Len(a.items)

ArenaInsertHandle(a) == Idx(NextSlot(a), a.generation)

ArenaInsert(a, v) ==
  LET i == NextSlot(a) IN
  IF IsSome(a.free_list_head)
  THEN [a EXCEPT !.items[i + 1] = Occupied(a.generation, v),
                 !.free_list_head = a.items[i + 1].next_free,
                 !.len = a.len + 1]
  ELSE [a EXCEPT !.items = Append(a.items, Occupied(a.generation, v)),
                 !.len = a.len + 1]

ArenaGetIgnoringGeneration(a, h) ==
  IF h.index >= Len(a.items) THEN None
  ELSE LET e == a.items[h.index + 1] IN
       IF e.occ THEN Some(e.value) ELSE None

ArenaGet(a, h) ==
  IF h.index >= Len(a.items) THEN None
  ELSE LET e == a.items[h.index + 1] IN
       IF e.occ /\ e.generation = h.generation THEN Some(e.value) ELSE None

ArenaContains(a, h) == IsSome(ArenaGet(a, h))

ArenaRemove(a, h) ==
  IF ~ArenaContains(a, h) THEN a
  ELSE [a EXCEPT !.items[h.index + 1] = Free(a.free_list_head),
                 !.generation = a.generation + 1,
                 !.free_list_head = Some(h.index),
                 !.len = a.len - 1]

\* Every handle value that indexes an allocated slot of the arena.
HandlesOf(a) == {Idx(i, g) : i \in 0..(Len(a.items) - 1), g \in 0..a.generation}

LiveHandles(a) == {h \in HandlesOf(a) : ArenaContains(a, h)}

\* ------------------------------------------------------------------ materials
DrawModes == {"Triangles", "Lines"}

\* color and uv_repeating take the values new() gives them unless set.
PbrMaterial(cm, dcm, cf, dt, dm) ==
  [color |-> "black", color_map |-> cm, debug_cube_map |-> dcm, uv_repeating |-> "once",
   cull_face |-> cf, depth_test |-> dt, draw_mode |-> dm]

set_color(m, color) == [m EXCEPT !.color = color]

set_uv_repeating(m, uv_repeating) == [m EXCEPT !.uv_repeating = uv_repeating]

PbrNew == PbrMaterial(None, None, TRUE, TRUE, "Triangles")

\* The tag built from the color map slot alone.
GetTagColorMapOnly(m) ==
  <<"pbr">> \o (IF IsSome(m.color_map) THEN <<":color_map">> ELSE <<>>)

get_tag(m) ==
  <<"pbr">>
    \o (IF IsSome(m.color_map) THEN <<":color_map">> ELSE <<>>)
    \o (IF IsSome(m.debug_cube_map) THEN <<":debug_cube_map">> ELSE <<>>)

Defines(m) ==
  (IF IsSome(m.color_map) THEN <<"USE_COLOR_MAP">> ELSE <<>>)
    \o (IF IsSome(m.debug_cube_map) THEN <<"USE_DEBUG_CUBE_MAP">> ELSE <<>>)

draw_mode(m) == m.draw_mode
cull_face(m) == m.cull_face
depth_test(m) == m.depth_test

\* ------------------------------------------------------------------ shaders
AttributeNames == {"Position", "Normal"}

RECURSIVE SeqsOver(_)
\* The orders in which a hash map with key set S can be iterated.
SeqsOver(S) ==
  IF S = {} THEN {<<>>}
  ELSE UNION {{<<x>> \o s : s \in SeqsOver(S \ {x})} : x \in S}

AttributeOrders == UNION {SeqsOver(S) : S \in SUBSET AttributeNames}

\* The program the graphics context returns for a compilation: the defines it
\* was compiled with and its active attribute slots in their iteration order.
Shader(id, defines, attrs) == [id |-> id, defines |-> defines, attributes |-> attrs]

\* ------------------------------------------------------------------ renderer
RendererNew ==
  [buffers |-> EmptyArena, accessors |-> EmptyArena, geometries |-> EmptyArena,
   materials |-> EmptyArena, meshes |-> EmptyArena, cameras |-> EmptyArena,
   scene |-> EmptyArena, shaders |-> <<>>]

ArenaKinds == {"buffers", "accessors", "geometries", "materials", "meshes", "cameras"}

CtxNew == [create_shader |-> 0, create_buffer |-> 0]

NoIssued == [k \in ArenaKinds \cup {"scene"} |-> {}]

Init ==
  /\ renderer = RendererNew
  /\ ctx = CtxNew
  /\ frame = None
  /\ panicked = FALSE
  /\ issued = NoIssued
  /\ tags_seen = {}
  /\ gltf = None
  /\ imported = None
  /\ gltf_meshes = None

\* Record of a handle an insert returned: the value stored and whether the
\* handle has been removed since.
Issue(k, h, v) == [issued EXCEPT ![k] = @ \cup {[handle |-> h, value |-> v, removed |-> FALSE]}]

Retire(k, h) ==
  [issued EXCEPT ![k] = {IF e.handle = h THEN [e EXCEPT !.removed = TRUE] ELSE e : e \in @}]

\* The number of entries the model lets an arena of the renderer hold.
Capacity(k) ==
  CASE k = "buffers" -> MaxBuffers
    [] k = "accessors" -> MaxAccessors
    [] k = "geometries" -> MaxGeometries
    [] k = "materials" -> MaxMaterials
    [] k = "meshes" -> MaxMeshes
    [] k = "cameras" -> MaxCameras
    [] k = "scene" -> MaxNodes

HasRoom(k) == renderer[k].len < Capacity(k)

\* ------------------------------------------------------------------ shader cache
\* renderer.shaders maps a tag to the shader compiled for it.
ShadersInsert(sh, tag, shader) ==
  [t \in (DOMAIN sh) \cup {tag} |-> IF t = tag THEN shader ELSE sh[t]]

ShadersGet(sh, tag) == IF tag \in DOMAIN sh THEN Some(sh[tag]) ELSE None

\* checkup_shader compiling for every material, cached tag or not.
CompilesAlways(r, m) == TRUE

\* checkup_shader compiling for no material.
CompilesNever(r, m) == FALSE

\* checkup_shader calls material.create_shader only for a tag that is not cached.
Compiles(r, m) == ShadersGet(r.shaders, get_tag(m)) = None

\* The renderer after checkup_shader(material) when the compilation, if one is
\* needed, returns a shader with the attribute slots attrs.
CheckupShader(r, m, attrs) ==
  IF Compiles(r, m)
  THEN [r EXCEPT !.shaders = ShadersInsert(@, get_tag(m), Shader(ctx.create_shader + 1, Defines(m), attrs))]
  ELSE r

\* ------------------------------------------------------------------ operations
\* The insert of a registry method (insert_mesh, insert_accessor, ...).
InsertInto(k, v) ==
  /\ HasRoom(k)
  /\ renderer' = [renderer EXCEPT ![k] = ArenaInsert(@, v)]

\* A caller's insert into one of the renderer's public arenas; the handle it
\* returns is recorded in issued.
ArenaInsertOp(k, v) ==
  /\ ~panicked
  /\ InsertInto(k, v)
  /\ issued' = Issue(k, ArenaInsertHandle(renderer[k]), v)
  /\ frame' = None
  /\ UNCHANGED <<ctx, panicked, tags_seen, gltf, imported, gltf_meshes>>

ArenaRemoveOp(k, h) ==
  /\ ~panicked
  /\ renderer[k].generation < MaxGen
  /\ renderer' = [renderer EXCEPT ![k] = ArenaRemove(@, h)]
  /\ issued' = IF ArenaContains(renderer[k], h) THEN Retire(k, h) ELSE issued
  /\ frame' = None
  /\ UNCHANGED <<ctx, panicked, tags_seen, gltf, imported, gltf_meshes>>

\* insert_buffer: the context creates the buffer (ok) or fails, and unwrap panics.
InsertBuffer(target, ok) ==
  /\ ~panicked
  /\ HasRoom("buffers")
  /\ ctx' = [ctx EXCEPT !.create_buffer = @ + 1]
  /\ IF ok
     THEN /\ InsertInto("buffers", [id |-> ctx.create_buffer + 1, target |-> target])
          /\ UNCHANGED panicked
     ELSE /\ panicked' = TRUE
          /\ UNCHANGED renderer
  /\ frame' = None
  /\ UNCHANGED <<issued, tags_seen, gltf, imported, gltf_meshes>>

\* insert_material: checkup_shader, then the insert into the materials arena.
InsertMaterial(m, attrs, ok) ==
  /\ ~panicked
  /\ HasRoom("materials")
  /\ tags_seen' = tags_seen \cup {get_tag(m)}
  /\ ctx' = IF Compiles(renderer, m) THEN [ctx EXCEPT !.create_shader = @ + 1] ELSE ctx
  /\ IF Compiles(renderer, m) /\ ~ok
     THEN /\ panicked' = TRUE
          /\ UNCHANGED renderer
     ELSE /\ LET r == CheckupShader(renderer, m, attrs) IN
             renderer' = [r EXCEPT !.materials = ArenaInsert(@, m)]
          /\ UNCHANGED panicked
  /\ issued' = IF Compiles(renderer, m) /\ ~ok THEN issued
               ELSE Issue("materials", ArenaInsertHandle(renderer.materials), m)
  /\ frame' = None
  /\ UNCHANGED <<gltf, imported, gltf_meshes>>

\* insert_accessor, insert_geometry, insert_mesh.
InsertAccessor(accessor) ==
  /\ ~panicked
  /\ InsertInto("accessors", accessor)
  /\ frame' = None
  /\ UNCHANGED <<ctx, panicked, issued, tags_seen, gltf, imported, gltf_meshes>>

InsertGeometry(geometry) ==
  /\ ~panicked
  /\ InsertInto("geometries", geometry)
  /\ frame' = None
  /\ UNCHANGED <<ctx, panicked, issued, tags_seen, gltf, imported, gltf_meshes>>

InsertMesh(mesh) ==
  /\ ~panicked
  /\ InsertInto("meshes", mesh)
  /\ frame' = None
  /\ UNCHANGED <<ctx, panicked, issued, tags_seen, gltf, imported, gltf_meshes>>

\* ------------------------------------------------------------------ scene graph
\* A transform is an affine map x -> a*x + b over the integers modulo 3, kept
\* as <<a, b>>; composition is not commutative.
Identity == <<1, 0>>
Compose(p, l) == <<(p[1] * l[1]) % 3, (p[1] * l[2] + p[2]) % 3>>

Node(local, mesh) ==
  [matrix_local |-> local, matrix_world |-> local, parent |-> None,
   children |-> <<>>, mesh |-> mesh]

GetNode(sc, h) == ArenaGet(sc, h)

SetNode(sc, h, n) == [sc EXCEPT !.items[h.index + 1].value = n]

RECURSIVE IsAncestor(_, _, _)
\* a is h or an ancestor of h.
IsAncestor(sc, a, h) ==
  \/ a = h
  \/ /\ IsSome(Unwrap(GetNode(sc, h)).parent)
     /\ IsAncestor(sc, a, Unwrap(Unwrap(GetNode(sc, h)).parent))

Without(seq, x) == SelectSeq(seq, LAMBDA y : y # x)

\* Detach the child from its parent, if it has one.
Detached(sc, child) ==
  LET c == Unwrap(GetNode(sc, child)) IN
  IF c.parent = None THEN sc
  ELSE LET p == Unwrap(c.parent)
           pn == Unwrap(GetNode(sc, p)) IN
       SetNode(SetNode(sc, p, [pn EXCEPT !.children = Without(@, child)]),
               child, [c EXCEPT !.parent = None])

Attached(sc, parent, child) ==
  LET d == Detached(sc, child)
      pn == Unwrap(GetNode(d, parent))
      c == Unwrap(GetNode(d, child)) IN
  SetNode(SetNode(d, parent, [pn EXCEPT !.children = Append(@, child)]),
          child, [c EXCEPT !.parent = Some(parent)])

RECURSIVE WorldOf(_, _)
\* The world transform of a node: its parent's world transform composed with
\* its local transform, the local transform for a root.
WorldOf(sc, h) ==
  LET n == Unwrap(GetNode(sc, h)) IN
  IF n.parent = None THEN n.matrix_local
  ELSE Compose(WorldOf(sc, Unwrap(n.parent)), n.matrix_local)

UpdatedWorld(sc) ==
  [sc EXCEPT !.items =
     [i \in DOMAIN sc.items |->
        IF sc.items[i].occ
        THEN [sc.items[i] EXCEPT !.value.matrix_world = WorldOf(sc, Idx(i - 1, sc.items[i].generation))]
        ELSE sc.items[i]]]

RECURSIVE Flatten(_)
Flatten(ss) == IF ss = <<>> THEN <<>> ELSE Head(ss) \o Flatten(Tail(ss))

RECURSIVE CollectAll(_, _)
\* The traversal returning every node, with a mesh or not.
CollectAll(sc, root) ==
  LET n == Unwrap(GetNode(sc, root)) IN
  <<root>> \o Flatten([i \in DOMAIN n.children |-> CollectAll(sc, n.children[i])])

RECURSIVE collect_visible_sub_items(_, _)
\* Depth-first from root, parent before children, the nodes that carry a mesh.
collect_visible_sub_items(sc, root) ==
  LET n == Unwrap(GetNode(sc, root)) IN
  (IF IsSome(n.mesh) THEN <<root>> ELSE <<>>)
    \o Flatten([i \in DOMAIN n.children |-> collect_visible_sub_items(sc, n.children[i])])

\* insert_node
InsertNode(node) ==
  /\ ~panicked
  /\ InsertInto("scene", node)
  /\ frame' = None
  /\ UNCHANGED <<ctx, panicked, issued, tags_seen, gltf, imported, gltf_meshes>>

SceneAttach(parent, child) ==
  /\ ~panicked
  /\ ArenaContains(renderer.scene, parent)
  /\ ArenaContains(renderer.scene, child)
  /\ ~IsAncestor(renderer.scene, child, parent)
  /\ renderer' = [renderer EXCEPT !.scene = Attached(@, parent, child)]
  /\ frame' = None
  /\ UNCHANGED <<ctx, panicked, issued, tags_seen, gltf, imported, gltf_meshes>>

SetLocal(h, t) ==
  /\ ~panicked
  /\ ArenaContains(renderer.scene, h)
  /\ renderer' = [renderer EXCEPT !.scene =
                    SetNode(@, h, [Unwrap(GetNode(@, h)) EXCEPT !.matrix_local = t])]
  /\ frame' = None
  /\ UNCHANGED <<ctx, panicked, issued, tags_seen, gltf, imported, gltf_meshes>>

UpdateWorldTransforms ==
  /\ ~panicked
  /\ renderer' = [renderer EXCEPT !.scene = UpdatedWorld(@)]
  /\ frame' = None
  /\ UNCHANGED <<ctx, panicked, issued, tags_seen, gltf, imported, gltf_meshes>>

\* ------------------------------------------------------------------ draw engine
\* A call on the graphics context (or on the bound shader), with the node and
\* the primitive it was issued for.
Call(op, src, args) == [op |-> op, src |-> src, args |-> args]

Accessor(buffer, count, component_type) ==
  [buffer |-> buffer, count |-> count, options |-> [component_type |-> component_type]]

Geometry(attributes, indices) == [attributes |-> attributes, indices |-> indices]

Primitive(geometry, material) == [geometry |-> geometry, material |-> material]

\* The outcome of a stretch of code: the calls it issued and whether it panicked.
Ok(calls) == [calls |-> calls, panicked |-> FALSE]
Panic(calls) == [calls |-> calls, panicked |-> TRUE]

\* Run g after f unless f panicked.
Then(f, g) == IF f.panicked THEN f ELSE [calls |-> f.calls \o g.calls, panicked |-> g.panicked]

RECURSIVE BindAttributesCountingBound(_, _, _, _, _, _)
\* The loop counting in attr_amount only the slots it bound.
BindAttributesCountingBound(r, names, geometry, src, k, acc) ==
  IF k > Len(names) \/ acc.panicked THEN acc
  ELSE LET name == names[k] IN
       IF name \in DOMAIN geometry.attributes
       THEN LET accessor == ArenaGet(r.accessors, geometry.attributes[name]) IN
            IF accessor = None THEN [acc EXCEPT !.panicked = TRUE]
            ELSE LET buffer == ArenaGet(r.buffers, Unwrap(accessor).buffer) IN
                 IF buffer = None THEN [acc EXCEPT !.panicked = TRUE]
                 ELSE BindAttributesCountingBound(r, names, geometry, src, k + 1,
                        [acc EXCEPT
                           !.calls = @ \o
                             <<Call("bind_buffer", src,
                                    [target |-> "ArrayBuffer", buffer |-> Unwrap(buffer)]),
                               Call("bind_attribute", src,
                                    [name |-> name, options |-> Unwrap(accessor).options])>>,
                           !.count = Unwrap(accessor).count,
                           !.attr_amount = @ + 1])
       ELSE BindAttributesCountingBound(r, names, geometry, src, k + 1, acc)

RECURSIVE BindAttributes(_, _, _, _, _, _)
\* The loop over the shader's attribute slots from slot k on; acc holds the
\* calls so far, count, attr_amount and whether an unwrap panicked.
BindAttributes(r, names, geometry, src, k, acc) ==
  IF k > Len(names) \/ acc.panicked THEN acc
  ELSE LET name == names[k] IN
       IF name \in DOMAIN geometry.attributes
       THEN LET accessor == ArenaGet(r.accessors, geometry.attributes[name]) IN
            IF accessor = None THEN [acc EXCEPT !.panicked = TRUE]
            ELSE LET buffer == ArenaGet(r.buffers, Unwrap(accessor).buffer) IN
                 IF buffer = None THEN [acc EXCEPT !.panicked = TRUE]
                 ELSE BindAttributes(r, names, geometry, src, k + 1,
                        [acc EXCEPT
                           !.calls = @ \o
                             <<Call("bind_buffer", src,
                                    [target |-> "ArrayBuffer", buffer |-> Unwrap(buffer)]),
                               Call("bind_attribute", src,
                                    [name |-> name, options |-> Unwrap(accessor).options])>>,
                           !.count = Unwrap(accessor).count,
                           !.attr_amount = @ + 1])
       ELSE BindAttributes(r, names, geometry, src, k + 1, [acc EXCEPT !.attr_amount = @ + 1])

\* The end of draw_call with first and count of draw_arrays swapped.
DrawArraysSwapped(r, geometry, material, src, count) ==
  IF IsSome(geometry.indices)
  THEN LET accessor == ArenaGet(r.accessors, Unwrap(geometry.indices)) IN
       IF accessor = None THEN Panic(<<>>)
       ELSE LET indices == ArenaGet(r.buffers, Unwrap(accessor).buffer) IN
            IF indices = None THEN Panic(<<>>)
            ELSE Ok(<<Call("bind_buffer", src,
                           [target |-> "ElementArrayBuffer", buffer |-> Unwrap(indices)]),
                      Call("draw_elements", src,
                           [mode |-> draw_mode(material), count |-> Unwrap(accessor).count,
                            type |-> Unwrap(accessor).options.component_type, offset |-> 0])>>)
  ELSE Ok(<<Call("draw_arrays", src, [mode |-> draw_mode(material), first |-> count, count |-> 0])>>)

\* The end of draw_call with the indexed draw left out.
DrawNeverIndexed(r, geometry, material, src, count) ==
  Ok(<<Call("draw_arrays", src, [mode |-> draw_mode(material), first |-> 0, count |-> count])>>)

\* The end of draw_call: the indexed draw or the non-indexed one.
Draw(r, geometry, material, src, count) ==
  IF IsSome(geometry.indices)
  THEN LET accessor == ArenaGet(r.accessors, Unwrap(geometry.indices)) IN
       IF accessor = None THEN Panic(<<>>)
       ELSE LET indices == ArenaGet(r.buffers, Unwrap(accessor).buffer) IN
            IF indices = None THEN Panic(<<>>)
            ELSE Ok(<<Call("bind_buffer", src,
                           [target |-> "ElementArrayBuffer", buffer |-> Unwrap(indices)]),
                      Call("draw_elements", src,
                           [mode |-> draw_mode(material), count |-> Unwrap(accessor).count,
                            type |-> Unwrap(accessor).options.component_type, offset |-> 0])>>)
  ELSE Ok(<<Call("draw_arrays", src, [mode |-> draw_mode(material), first |-> 0, count |-> count])>>)

\* draw_call setting the rasterizer flags before it binds the shader.
DrawCallFlagsFirst(r, geometry, material, node, camera, src) ==
  LET shader == ShadersGet(r.shaders, get_tag(material)) IN
  IF shader = None THEN Panic(<<>>)
  ELSE LET head == <<Call("set", src, [feature |-> "CullFace", value |-> cull_face(material)]),
                     Call("set", src, [feature |-> "DepthTest", value |-> depth_test(material)]),
                     Call("bind", src, [shader |-> Unwrap(shader).id]),
                     Call("set_uniforms", src,
                          [shader |-> Unwrap(shader).id,
                           modelMatrix |-> node.matrix_world,
                           viewMatrix |-> camera.view,
                           projectionMatrix |-> camera.projection])>>
           bound == BindAttributes(r, Unwrap(shader).attributes, geometry, src, 1,
                                   [calls |-> head, count |-> 0, attr_amount |-> 0,
                                    panicked |-> FALSE]) IN
       IF bound.panicked THEN Panic(bound.calls)
       ELSE Then(Ok(bound.calls \o
                    <<Call("switch_attributes", src, [amount |-> bound.attr_amount])>>),
                 Draw(r, geometry, material, src, bound.count))

DrawCall(r, geometry, material, node, camera, src) ==
  LET shader == ShadersGet(r.shaders, get_tag(material)) IN
  IF shader = None THEN Panic(<<>>)
  ELSE LET head == <<Call("bind", src, [shader |-> Unwrap(shader).id]),
                     Call("set_uniforms", src,
                          [shader |-> Unwrap(shader).id,
                           modelMatrix |-> node.matrix_world,
                           viewMatrix |-> camera.view,
                           projectionMatrix |-> camera.projection]),
                     Call("set", src, [feature |-> "CullFace", value |-> cull_face(material)]),
                     Call("set", src, [feature |-> "DepthTest", value |-> depth_test(material)])>>
           bound == BindAttributes(r, Unwrap(shader).attributes, geometry, src, 1,
                                   [calls |-> head, count |-> 0, attr_amount |-> 0,
                                    panicked |-> FALSE]) IN
       IF bound.panicked THEN Panic(bound.calls)
       ELSE Then(Ok(bound.calls \o
                    <<Call("switch_attributes", src, [amount |-> bound.attr_amount])>>),
                 Draw(r, geometry, material, src, bound.count))

\* The loop body resolving the geometry before it looks at the material.
DrawPrimitiveResolvingFirst(r, primitive, node, camera, src) ==
  LET geometry == ArenaGet(r.geometries, primitive.geometry) IN
  IF geometry = None THEN Panic(<<>>)
  ELSE IF IsSome(primitive.material)
  THEN LET material == ArenaGet(r.materials, Unwrap(primitive.material)) IN
       IF material = None THEN Panic(<<>>)
       ELSE DrawCall(r, Unwrap(geometry), Unwrap(material), node, camera, src)
  ELSE Ok(<<>>)

\* The loop body skipping a primitive whose geometry or material does not resolve.
DrawPrimitiveSkipping(r, primitive, node, camera, src) ==
  IF IsSome(primitive.material)
  THEN LET geometry == ArenaGet(r.geometries, primitive.geometry)
           material == ArenaGet(r.materials, Unwrap(primitive.material)) IN
       IF geometry = None \/ material = None THEN Ok(<<>>)
       ELSE DrawCall(r, Unwrap(geometry), Unwrap(material), node, camera, src)
  ELSE Ok(<<>>)

\* The body of the loop over a mesh's primitives, for primitive k of the node.
DrawPrimitive(r, primitive, node, camera, src) ==
  IF IsSome(primitive.material)
  THEN LET geometry == ArenaGet(r.geometries, primitive.geometry) IN
       IF geometry = None THEN Panic(<<>>)
       ELSE LET material == ArenaGet(r.materials, Unwrap(primitive.material)) IN
            IF material = None THEN Panic(<<>>)
            ELSE DrawCall(r, Unwrap(geometry), Unwrap(material), node, camera, src)
  ELSE Ok(<<>>)

RECURSIVE DrawPrimitivesReversed(_, _, _, _, _, _)
\* The loop over the primitives running from the last primitive to the first.
DrawPrimitivesReversed(r, primitives, node, camera, handle, k) ==
  IF k > Len(primitives) THEN Ok(<<>>)
  ELSE Then(DrawPrimitivesReversed(r, primitives, node, camera, handle, k + 1),
            DrawPrimitive(r, primitives[k], node, camera, <<handle, k>>))

RECURSIVE DrawPrimitives(_, _, _, _, _, _)
DrawPrimitives(r, primitives, node, camera, handle, k) ==
  IF k > Len(primitives) THEN Ok(<<>>)
  ELSE Then(DrawPrimitive(r, primitives[k], node, camera, <<handle, k>>),
            DrawPrimitives(r, primitives, node, camera, handle, k + 1))

\* The body of the loop over the visible nodes.
DrawNode(r, handle, camera) ==
  LET node == GetNode(r.scene, handle) IN
  IF node = None \/ Unwrap(node).mesh = None THEN Panic(<<>>)
  ELSE LET mesh == ArenaGet(r.meshes, Unwrap(Unwrap(node).mesh)) IN
       IF mesh = None THEN Panic(<<>>)
       ELSE DrawPrimitives(r, Unwrap(mesh).primitives, Unwrap(node), camera, handle, 1)

RECURSIVE DrawNodes(_, _, _, _)
DrawNodes(r, visible_items, camera, k) ==
  IF k > Len(visible_items) THEN Ok(<<>>)
  ELSE Then(DrawNode(r, visible_items[k], camera),
            DrawNodes(r, visible_items, camera, k + 1))

\* What render_scene(root_handle, camera_handle) does on the renderer r.
RenderResult(r, root_handle, camera_handle) ==
  LET visible_items == collect_visible_sub_items(r.scene, root_handle)
      camera == ArenaGet(r.cameras, camera_handle) IN
  IF camera = None THEN Panic(<<>>)
  ELSE DrawNodes(r, visible_items, Unwrap(camera), 1)

RenderScene(root_handle, camera_handle) ==
  /\ ~panicked
  /\ ArenaContains(renderer.scene, root_handle)
  /\ LET res == RenderResult(renderer, root_handle, camera_handle) IN
       /\ frame' = Some([root |-> root_handle, camera |-> camera_handle, calls |-> res.calls])
       /\ panicked' = res.panicked
  /\ UNCHANGED <<renderer, ctx, issued, tags_seen, gltf, imported, gltf_meshes>>

\* ------------------------------------------------------------------ arena specification
\* The handles a caller can name for an arena: those of its slots, and the
\* handle Index::from_raw_parts(0, 0).
Refs(a) == HandlesOf(a) \cup {Idx(0, 0)}

OptRefs(a) == {None} \cup {Some(h) : h \in Refs(a)}

AccessorShapes == {<<6, "Float32">>, <<12, "Uint16">>}

AccessorValues == {Accessor(b, sh[1], sh[2]) : b \in Refs(renderer.buffers), sh \in AccessorShapes}

NextArena ==
  \/ \E v \in AccessorValues : ArenaInsertOp("accessors", v)
  \/ \E h \in HandlesOf(renderer.accessors) : ArenaRemoveOp("accessors", h)

SpecArena == Init /\ [][NextArena]_vars

\* C1: every handle an insert returned resolves to the inserted value until it
\* is removed and to nothing afterwards, also once its slot has been reused.
C1_HandlesResolve ==
  \A k \in ArenaKinds : \A e \in issued[k] :
    ArenaGet(renderer[k], e.handle) = IF e.removed THEN None ELSE Some(e.value)

\* A removed handle whose slot holds a later insert's value.
C1_Witness ==
  \E old, new \in issued["accessors"] :
    /\ old.removed
    /\ ~new.removed
    /\ old.handle.index = new.handle.index
    /\ old.value # new.value
    /\ ArenaGet(renderer.accessors, new.handle) = Some(new.value)

\* ------------------------------------------------------------------ shader cache specification
Maps == {None, Some(Idx(0, 0))}
PbrMaterials ==
  {PbrMaterial(cm, dcm, TRUE, TRUE, "Triangles") : cm \in Maps, dcm \in Maps}
    \cup {PbrMaterial(None, None, FALSE, FALSE, "Lines"),
          set_color(PbrNew, "red"),
          set_uv_repeating(PbrNew, "twice"),
          PbrMaterial(Some(Idx(1, 0)), None, TRUE, TRUE, "Triangles")}

NextShaders ==
  \/ \E m \in PbrMaterials, ok \in BOOLEAN : InsertMaterial(m, <<"Position">>, ok)
  \/ \E h \in HandlesOf(renderer.materials) : ArenaRemoveOp("materials", h)

SpecShaders == Init /\ [][NextShaders]_vars

\* C2: the compilations number the distinct tags seen, the cache holds the tags
\* seen, and an insert for a cached tag compiles nothing and leaves the cache as it is.
C2_OneCompilationPerTag ==
  /\ [](~panicked => /\ ctx.create_shader = Cardinality(tags_seen)
                     /\ DOMAIN renderer.shaders = tags_seen)
  /\ [][\A t \in DOMAIN renderer.shaders :
          /\ t \in DOMAIN renderer'.shaders
          /\ renderer'.shaders[t] = renderer.shaders[t]
          /\ (tags_seen' = tags_seen => ctx'.create_shader = ctx.create_shader)]_vars

\* Two materials of one tag are registered and one compilation has happened.
C2_Witness ==
  /\ ~panicked
  /\ renderer.materials.generation > 0
  /\ renderer.materials.len = 1
  /\ Cardinality(tags_seen) = 1
  /\ ctx.create_shader = 1

\* The materials insert_material has registered.
Registered == {e.value : e \in issued["materials"]}

Populated(m) == <<IsSome(m.color_map), IsSome(m.debug_cube_map)>>

\* C14: two registered materials have one tag exactly if create_shader passes
\* the same defines for both, which is exactly if they populate the same
\* texture slots, whatever their other fields; and the shader cached under a
\* stored material's tag was compiled with that material's defines.
C14_TagIffDefines ==
  /\ \A m1, m2 \in Registered :
       /\ (get_tag(m1) = get_tag(m2)) <=> (Defines(m1) = Defines(m2))
       /\ (get_tag(m1) = get_tag(m2)) <=> (Populated(m1) = Populated(m2))
  /\ \A e \in issued["materials"] :
       (~e.removed /\ ~panicked) =>
         /\ get_tag(e.value) \in DOMAIN renderer.shaders
         /\ renderer.shaders[get_tag(e.value)].defines = Defines(e.value)

\* A stored material whose shader was compiled for an earlier material of the
\* same tag that differs in draw mode, cull-face and depth-test, next to a
\* registered material of another tag.
C14_Witness ==
  /\ ~panicked
  /\ \E e1, e2, e3 \in issued["materials"] :
       /\ e1.removed
       /\ ~e2.removed
       /\ get_tag(e1.value) = get_tag(e2.value)
       /\ e1.value.draw_mode # e2.value.draw_mode
       /\ e1.value.cull_face # e2.value.cull_face
       /\ get_tag(e3.value) # get_tag(e1.value)
       /\ e3.value.debug_cube_map # e1.value.debug_cube_map
  /\ ctx.create_shader = 2

\* ------------------------------------------------------------------ draw specification
AttributeMaps(H) == UNION {[S -> H] : S \in SUBSET AttributeNames}

GeometryValues ==
  {Geometry(at, ind) : at \in AttributeMaps(Refs(renderer.accessors)),
                       ind \in OptRefs(renderer.accessors)}

DrawMaterials == {PbrNew, PbrMaterial(None, None, FALSE, TRUE, "Lines")}

CameraDefault == [view |-> Identity, projection |-> Identity]

Mesh(primitives) == [primitives |-> primitives, name |-> None]

NextRender ==
  \/ \E ok \in BOOLEAN : InsertBuffer("ArrayBuffer", ok)
  \/ \E a \in AccessorValues : InsertAccessor(a)
  \/ \E g \in GeometryValues : InsertGeometry(g)
  \/ \E m \in DrawMaterials, at \in AttributeOrders, ok \in BOOLEAN : InsertMaterial(m, at, ok)
  \/ \E g \in Refs(renderer.geometries), m \in Refs(renderer.materials) :
       InsertMesh(Mesh(<<Primitive(g, Some(m))>>))
  \/ ArenaInsertOp("cameras", CameraDefault)
  \/ \E m \in Refs(renderer.meshes) : InsertNode(Node(Identity, Some(m)))
  \/ \E root \in HandlesOf(renderer.scene), cam \in Refs(renderer.cameras) : RenderScene(root, cam)

SpecRender == Init /\ [][NextRender]_vars

\* ---- what a frame is expected to hold, read off the renderer
FrameCalls == Unwrap(frame).calls

IsDraw(c) == c.op \in {"draw_arrays", "draw_elements"}

DrawsOf(calls) == SelectSeq(calls, IsDraw)

SrcsOf(calls) == [i \in DOMAIN calls |-> calls[i].src]

CallsFor(src) == SelectSeq(FrameCalls, LAMBDA c : c.src = src)

Visible == collect_visible_sub_items(renderer.scene, Unwrap(frame).root)

NodeMesh(h) == ArenaGet(renderer.meshes, Unwrap(Unwrap(GetNode(renderer.scene, h)).mesh))

\* The primitives of the visible nodes whose mesh resolves, as <<node, k>>.
VisiblePrimitives ==
  {<<Visible[i], k>> : i \in DOMAIN Visible, k \in 1..MaxPrimitives} \cap
  {src \in (LiveHandles(renderer.scene) \X (1..MaxPrimitives)) :
     /\ IsSome(Unwrap(GetNode(renderer.scene, src[1])).mesh)
     /\ IsSome(NodeMesh(src[1]))
     /\ src[2] <= Len(Unwrap(NodeMesh(src[1])).primitives)}

PrimitiveAt(src) == Unwrap(NodeMesh(src[1])).primitives[src[2]]

MaterialBearing == {src \in VisiblePrimitives : IsSome(PrimitiveAt(src).material)}

GeometryAt(src) == Unwrap(ArenaGet(renderer.geometries, PrimitiveAt(src).geometry))

MaterialAt(src) == Unwrap(ArenaGet(renderer.materials, Unwrap(PrimitiveAt(src).material)))

\* The geometry's attribute accessors all resolve and hold the count c.
HasVertexCount(geometry, c) ==
  /\ DOMAIN geometry.attributes # {}
  /\ \A n \in DOMAIN geometry.attributes :
       /\ ArenaContains(renderer.accessors, geometry.attributes[n])
       /\ Unwrap(ArenaGet(renderer.accessors, geometry.attributes[n])).count = c

\* C4: in a frame that completed, a material-bearing primitive whose geometry
\* has no index accessor gets exactly one draw call, draw_arrays, with the
\* count of the geometry's attribute accessors and the material's draw mode.
C4_NonIndexedDraw ==
  (IsSome(frame) /\ ~panicked) =>
    \A src \in MaterialBearing : \A c \in {6, 12} :
      (GeometryAt(src).indices = None /\ HasVertexCount(GeometryAt(src), c)) =>
        DrawsOf(CallsFor(src)) =
          <<Call("draw_arrays", src,
                 [mode |-> MaterialAt(src).draw_mode, first |-> 0, count |-> c])>>

ShaderAt(src) == renderer.shaders[get_tag(MaterialAt(src))]

\* The shader's attribute slots that the geometry supplies, in the shader's order.
Supplied(src) ==
  SelectSeq(ShaderAt(src).attributes, LAMBDA n : n \in DOMAIN GeometryAt(src).attributes)

\* The count draw_call ends its attribute loop with: that of the accessor bound last.
LastBoundCount(src) ==
  IF Supplied(src) = <<>> THEN 0
  ELSE Unwrap(ArenaGet(renderer.accessors,
                       GeometryAt(src).attributes[Supplied(src)[Len(Supplied(src))]])).count

\* C4 as amended: the one draw call of a completed non-indexed primitive is
\* draw_arrays with the material's draw mode and the count of the accessor bound
\* last among the shader's attribute slots, 0 when the shader declares none of
\* the geometry's attributes; it is the geometry's vertex count when the
\* geometry's accessors agree and the shader declares one of them.
C4_NonIndexedDrawBound ==
  (IsSome(frame) /\ ~panicked) =>
    \A src \in MaterialBearing :
      GeometryAt(src).indices = None =>
        /\ DrawsOf(CallsFor(src)) =
             <<Call("draw_arrays", src,
                    [mode |-> MaterialAt(src).draw_mode, first |-> 0,
                     count |-> LastBoundCount(src)])>>
        /\ \A c \in {6, 12} :
             (HasVertexCount(GeometryAt(src), c) /\ Supplied(src) # <<>>) =>
               DrawsOf(CallsFor(src))[1].args.count = c

\* A non-indexed draw of 6 vertices in Lines mode.
C4_Witness ==
  /\ IsSome(frame)
  /\ ~panicked
  /\ \E src \in MaterialBearing :
       /\ GeometryAt(src).indices = None
       /\ HasVertexCount(GeometryAt(src), 6)
       /\ DrawsOf(CallsFor(src)) =
            <<Call("draw_arrays", src, [mode |-> "Lines", first |-> 0, count |-> 6])>>

\* The draw call expected for an indexed primitive, after the binding of its index buffer.
ExpectedIndexedDraw(src) ==
  LET accessor == Unwrap(ArenaGet(renderer.accessors, Unwrap(GeometryAt(src).indices)))
      indices == Unwrap(ArenaGet(renderer.buffers, accessor.buffer)) IN
  <<Call("bind_buffer", src, [target |-> "ElementArrayBuffer", buffer |-> indices]),
    Call("draw_elements", src,
         [mode |-> MaterialAt(src).draw_mode, count |-> accessor.count,
          type |-> accessor.options.component_type, offset |-> 0])>>

\* C5: in a frame that completed, a material-bearing primitive whose geometry
\* has an index accessor gets exactly one draw call, draw_elements, right after
\* the index accessor's buffer is bound as element-array buffer, with the index
\* accessor's count and component type and the material's draw mode.
C5_IndexedDraw ==
  (IsSome(frame) /\ ~panicked) =>
    \A src \in MaterialBearing :
      IsSome(GeometryAt(src).indices) =>
        /\ Len(DrawsOf(CallsFor(src))) = 1
        /\ Len(CallsFor(src)) >= 2
        /\ DrawsOf(CallsFor(src))[1].op = "draw_elements"
        /\ SubSeq(CallsFor(src), Len(CallsFor(src)) - 1, Len(CallsFor(src))) =
             ExpectedIndexedDraw(src)

\* An indexed draw of count 12 for a geometry whose bound attribute holds 6.
C5_Witness ==
  /\ IsSome(frame)
  /\ ~panicked
  /\ \E src \in MaterialBearing :
       /\ IsSome(GeometryAt(src).indices)
       /\ \E i \in DOMAIN FrameCalls :
            /\ FrameCalls[i].op = "draw_elements"
            /\ FrameCalls[i].src = src
            /\ FrameCalls[i].args.count = 12
       /\ \E n \in DOMAIN GeometryAt(src).attributes :
            /\ HasVertexCount(GeometryAt(src), 6)
            /\ \E i \in DOMAIN FrameCalls :
                 /\ FrameCalls[i].op = "bind_attribute"
                 /\ FrameCalls[i].src = src
                 /\ FrameCalls[i].args.name = n

\* The step of draw_call a call belongs to.
Rank(c) ==
  CASE c.op = "bind" -> 1
    [] c.op = "set_uniforms" -> 2
    [] c.op = "set" /\ c.args.feature = "CullFace" -> 3
    [] c.op = "set" /\ c.args.feature = "DepthTest" -> 4
    [] c.op = "bind_buffer" /\ c.args.target = "ArrayBuffer" -> 5
    [] c.op = "bind_attribute" -> 5
    [] c.op = "switch_attributes" -> 6
    [] c.op = "bind_buffer" /\ c.args.target = "ElementArrayBuffer" -> 7
    [] IsDraw(c) -> 8

\* The primitives the frame issued calls for.
Drawn == {FrameCalls[i].src : i \in DOMAIN FrameCalls}

\* C15: the calls of one draw call are, in this order, the bind of the shader
\* cached under the material's tag, the material's uniform writes, cull-face
\* and depth-test set to the material's values, the attribute bindings, the
\* switch of the slot count and, last, the single draw; the calls of one
\* primitive are not interleaved with another's.
C15_DrawCallOrder ==
  IsSome(frame) =>
    \A src \in Drawn :
      LET cs == CallsFor(src) IN
      /\ \E first \in DOMAIN FrameCalls :
           \A i \in DOMAIN cs : FrameCalls[first + i - 1] = cs[i]
      /\ \A i, j \in DOMAIN cs :
           i < j => /\ Rank(cs[i]) <= Rank(cs[j])
                    /\ Rank(cs[i]) = Rank(cs[j]) => Rank(cs[i]) = 5
      /\ Len(cs) >= 4
      /\ cs[1] = Call("bind", src, [shader |-> ShaderAt(src).id])
      /\ cs[2].op = "set_uniforms"
      /\ cs[2].args.shader = ShaderAt(src).id
      /\ cs[3] = Call("set", src, [feature |-> "CullFace", value |-> MaterialAt(src).cull_face])
      /\ cs[4] = Call("set", src, [feature |-> "DepthTest", value |-> MaterialAt(src).depth_test])
      /\ ~panicked =>
           /\ IsDraw(cs[Len(cs)])
           /\ \E i \in DOMAIN cs : cs[i].op = "switch_attributes"

\* A completed indexed draw call that binds two attributes: every step occurs.
C15_Witness ==
  /\ IsSome(frame)
  /\ ~panicked
  /\ \E src \in Drawn :
       /\ Len(CallsFor(src)) = 11
       /\ {Rank(CallsFor(src)[i]) : i \in DOMAIN CallsFor(src)} = 1..8
       /\ MaterialAt(src).cull_face = FALSE

\* The bindings expected of a draw call: buffer and layout of the accessor of
\* every slot the shader declares and the geometry supplies, in the shader's order.
ExpectedBindings(src) ==
  Flatten([i \in DOMAIN Supplied(src) |->
             LET name == Supplied(src)[i]
                 accessor == Unwrap(ArenaGet(renderer.accessors, GeometryAt(src).attributes[name])) IN
             <<Call("bind_buffer", src,
                    [target |-> "ArrayBuffer",
                     buffer |-> Unwrap(ArenaGet(renderer.buffers, accessor.buffer))]),
               Call("bind_attribute", src, [name |-> name, options |-> accessor.options])>>])

\* C16: a completed draw call binds, for every slot the shader declares and
\* the geometry supplies, the accessor's buffer as vertex-array buffer and the
\* slot with the accessor's options, binds nothing else, and passes the number
\* of slots the shader declares to switch_attributes.
C16_AttributeBinding ==
  (IsSome(frame) /\ ~panicked) =>
    \A src \in MaterialBearing :
      LET cs == CallsFor(src) IN
      /\ SelectSeq(cs, LAMBDA c : Rank(c) = 5) = ExpectedBindings(src)
      /\ SelectSeq(cs, LAMBDA c : c.op = "switch_attributes") =
           <<Call("switch_attributes", src, [amount |-> Len(ShaderAt(src).attributes)])>>

\* A shader declaring two slots drawn with a geometry that supplies one of them.
C16_Witness ==
  /\ IsSome(frame)
  /\ ~panicked
  /\ \E src \in MaterialBearing :
       /\ Len(ShaderAt(src).attributes) = 2
       /\ DOMAIN GeometryAt(src).attributes = {"Position"}
       /\ Len(ExpectedBindings(src)) = 2
       /\ \E i \in DOMAIN FrameCalls :
            FrameCalls[i] = Call("switch_attributes", src, [amount |-> 2])

\* ------------------------------------------------------------------ frame specification
\* A handle that no insert into the arena can have returned.
Dangling(k) == Idx(Capacity(k), 0)

FrameGeometries ==
  {Geometry(<<>>, None), Geometry(<<>>, Some(Idx(0, 0)))}

PrimitiveValues ==
  {Primitive(g, m) : g \in Refs(renderer.geometries) \cup {Dangling("geometries")},
                     m \in OptRefs(renderer.materials)}

MeshValues ==
  {Mesh(ps) : ps \in UNION {[1..n -> PrimitiveValues] : n \in 1..MaxPrimitives}}

NextFrame ==
  \/ \E g \in FrameGeometries : InsertGeometry(g)
  \/ \E ok \in BOOLEAN : InsertMaterial(PbrNew, <<"Position">>, ok)
  \/ \E m \in MeshValues : InsertMesh(m)
  \/ ArenaInsertOp("cameras", CameraDefault)
  \/ \E m \in OptRefs(renderer.meshes) : InsertNode(Node(Identity, m))
  \/ \E p, c \in HandlesOf(renderer.scene) : SceneAttach(p, c)
  \/ \E root \in HandlesOf(renderer.scene), cam \in Refs(renderer.cameras) : RenderScene(root, cam)

SpecFrame == Init /\ [][NextFrame]_vars

\* ---- the frame as a whole
CameraResolves == ArenaContains(renderer.cameras, Unwrap(frame).camera)

MeshResolves(h) ==
  /\ IsSome(Unwrap(GetNode(renderer.scene, h)).mesh)
  /\ IsSome(NodeMesh(h))

\* The material-bearing primitives of a node whose mesh resolves, in primitive order.
NodePrimitives(h) ==
  LET ps == Unwrap(NodeMesh(h)).primitives IN
  SelectSeq([k \in DOMAIN ps |-> <<h, k>>], LAMBDA src : IsSome(ps[src[2]].material))

\* Every lookup that drawing the primitive makes finds its entry.
Resolves(src) ==
  LET primitive == PrimitiveAt(src) IN
  /\ ArenaContains(renderer.geometries, primitive.geometry)
  /\ ArenaContains(renderer.materials, Unwrap(primitive.material))
  /\ get_tag(MaterialAt(src)) \in DOMAIN renderer.shaders
  /\ \A n \in DOMAIN GeometryAt(src).attributes :
       (\E i \in DOMAIN ShaderAt(src).attributes : ShaderAt(src).attributes[i] = n) =>
         /\ ArenaContains(renderer.accessors, GeometryAt(src).attributes[n])
         /\ ArenaContains(renderer.buffers,
              Unwrap(ArenaGet(renderer.accessors, GeometryAt(src).attributes[n])).buffer)
  /\ IsSome(GeometryAt(src).indices) =>
       /\ ArenaContains(renderer.accessors, Unwrap(GeometryAt(src).indices))
       /\ ArenaContains(renderer.buffers,
            Unwrap(ArenaGet(renderer.accessors, Unwrap(GeometryAt(src).indices))).buffer)

\* The steps of the frame in order: one per visible node whose mesh does not
\* resolve, one per material-bearing primitive of the other visible nodes.
FrameItems ==
  Flatten([i \in DOMAIN Visible |->
             IF MeshResolves(Visible[i])
             THEN LET ps == NodePrimitives(Visible[i]) IN
                  [j \in DOMAIN ps |-> [src |-> ps[j], ok |-> Resolves(ps[j])]]
             ELSE <<[src |-> <<Visible[i], 0>>, ok |-> FALSE]>>])

Broken == {i \in DOMAIN FrameItems : ~FrameItems[i].ok}

FirstBroken == IF Broken = {} THEN Len(FrameItems) + 1
               ELSE CHOOSE i \in Broken : \A j \in Broken : i <= j

DrawSrcs == SrcsOf(DrawsOf(FrameCalls))

\* C6: a primitive without material causes no call on the context and no
\* failure, whether or not its geometry handle resolves, and the primitives
\* after it are drawn.
C6_NoMaterialSkipped ==
  IsSome(frame) =>
    /\ \A i \in DOMAIN FrameCalls : FrameCalls[i].src \in MaterialBearing
    /\ (CameraResolves /\ FrameItems = <<>>) => (~panicked /\ FrameCalls = <<>>)
    /\ ~panicked => \A src \in MaterialBearing : Len(DrawsOf(CallsFor(src))) = 1

\* A completed frame with a material-less primitive whose geometry handle does
\* not resolve, followed in its mesh by a primitive that was drawn.
C6_Witness ==
  /\ IsSome(frame)
  /\ ~panicked
  /\ \E src \in VisiblePrimitives \ MaterialBearing :
       /\ ~ArenaContains(renderer.geometries, PrimitiveAt(src).geometry)
       /\ <<src[1], src[2] + 1>> \in MaterialBearing
       /\ Len(DrawsOf(CallsFor(<<src[1], src[2] + 1>>))) = 1

\* C7: the frame panics exactly when the camera, a visible node's mesh or a
\* lookup of a material-bearing primitive does not resolve; the draw calls
\* issued are those of the primitives before the first such failure, and none
\* after it.
C7_UnresolvedIsFatal ==
  IsSome(frame) =>
    IF ~CameraResolves THEN panicked /\ FrameCalls = <<>>
    ELSE /\ panicked <=> Broken # {}
         /\ DrawSrcs = [i \in 1..(FirstBroken - 1) |-> FrameItems[i].src]

\* A frame that drew a primitive, then panicked on a geometry handle that does
\* not resolve, and left a later primitive undrawn.
C7_Witness ==
  /\ IsSome(frame)
  /\ panicked
  /\ CameraResolves
  /\ Len(DrawSrcs) >= 1
  /\ FirstBroken < Len(FrameItems)
  /\ FrameItems[FirstBroken].src[2] > 0
  /\ ~ArenaContains(renderer.geometries, PrimitiveAt(FrameItems[FirstBroken].src).geometry)

\* C8: the draw calls of a completed frame are, in order, one per
\* material-bearing primitive of the visible nodes, node by node in traversal
\* order and primitive by primitive within a node's mesh.
C8_DrawOrder ==
  (IsSome(frame) /\ ~panicked) =>
    DrawSrcs = Flatten([i \in DOMAIN Visible |-> NodePrimitives(Visible[i])])

\* Two visible nodes sharing a mesh of two primitives, each node drawn.
C8_Witness ==
  /\ IsSome(frame)
  /\ ~panicked
  /\ Len(DrawSrcs) >= 3
  /\ \E i, j \in DOMAIN Visible :
       /\ i < j
       /\ Unwrap(GetNode(renderer.scene, Visible[i])).mesh =
            Unwrap(GetNode(renderer.scene, Visible[j])).mesh
       /\ \E k \in 1..2 : <<Visible[i], k>> \in VisiblePrimitives \ MaterialBearing

Reachable(root) == {h \in LiveHandles(renderer.scene) : IsAncestor(renderer.scene, root, h)}

HasMesh(h) == IsSome(Unwrap(GetNode(renderer.scene, h)).mesh)

\* C9: from every root the traversal returns each reachable mesh-bearing node
\* once and no other node, a node before its descendants and the descendants
\* of a node in one run.
C9_CollectVisible ==
  \A root \in LiveHandles(renderer.scene) :
    LET v == collect_visible_sub_items(renderer.scene, root) IN
    /\ \A i, j \in DOMAIN v : v[i] = v[j] => i = j
    /\ {v[i] : i \in DOMAIN v} = {h \in Reachable(root) : HasMesh(h)}
    /\ \A i, j \in DOMAIN v :
         (i # j /\ IsAncestor(renderer.scene, v[i], v[j])) => i < j
    /\ \A a \in Reachable(root) : \A i, j, k \in DOMAIN v :
         (i < j /\ j < k /\ IsAncestor(renderer.scene, a, v[i])
            /\ IsAncestor(renderer.scene, a, v[k])) => IsAncestor(renderer.scene, a, v[j])

\* A frame from a mesh-less root with two mesh-bearing children.
C9_Witness ==
  /\ IsSome(frame)
  /\ ~HasMesh(Unwrap(frame).root)
  /\ Len(Unwrap(GetNode(renderer.scene, Unwrap(frame).root)).children) = 2
  /\ Len(Visible) = 2

\* ------------------------------------------------------------------ transform specification
Locals == {Identity, <<2, 1>>}

NextTransforms ==
  \/ InsertGeometry(Geometry(<<>>, None))
  \/ \E ok \in BOOLEAN : InsertMaterial(PbrNew, <<>>, ok)
  \/ InsertMesh(Mesh(<<Primitive(Idx(0, 0), Some(Idx(0, 0)))>>))
  \/ ArenaInsertOp("cameras", CameraDefault)
  \/ \E l \in Locals : InsertNode(Node(l, Some(Idx(0, 0))))
  \/ \E p, c \in HandlesOf(renderer.scene) : SceneAttach(p, c)
  \/ \E h \in HandlesOf(renderer.scene), t \in Locals : SetLocal(h, t)
  \/ UpdateWorldTransforms
  \/ \E root \in HandlesOf(renderer.scene), cam \in Refs(renderer.cameras) : RenderScene(root, cam)

SpecTransforms == Init /\ [][NextTransforms]_vars

\* C3: the world transform every draw call of a frame reads is the parent's
\* world transform composed with the local transform, for the graph as it
\* stands when render_scene is called.
C3_WorldTransformsFresh ==
  IsSome(frame) =>
    \A i \in DOMAIN FrameCalls :
      FrameCalls[i].op = "set_uniforms" =>
        FrameCalls[i].args.modelMatrix = WorldOf(renderer.scene, FrameCalls[i].src[1])

\* ------------------------------------------------------------------ registry specification
RegistryMaterials ==
  {PbrNew, PbrMaterial(Some(Idx(0, 0)), Some(Idx(0, 0)), FALSE, TRUE, "Lines")}

\* insert_material next to inserts and removes on the public arenas.
NextRegistry ==
  \/ \E m \in RegistryMaterials, ok \in BOOLEAN : InsertMaterial(m, <<"Position">>, ok)
  \/ \E h \in HandlesOf(renderer.materials) : ArenaRemoveOp("materials", h)
  \/ ArenaInsertOp("cameras", CameraDefault)
  \/ \E h \in HandlesOf(renderer.cameras) : ArenaRemoveOp("cameras", h)

SpecRegistry == Init /\ [][NextRegistry]_vars

\* draw_call for the material on a geometry without attributes and indices,
\* where only the shader lookup can fail.
LookupDraw(m) ==
  DrawCall(renderer, Geometry(<<>>, None), m, Node(Identity, None), CameraDefault, <<Idx(0, 0), 1>>)

\* C17: every material stored in the materials registry has a shader cached
\* under its tag, so the lookup at the start of draw_call succeeds for it, and
\* no step removes or replaces an entry of the shader cache.
C17_StoredMaterialHasShader ==
  /\ [](\A h \in LiveHandles(renderer.materials) :
         LET m == Unwrap(ArenaGet(renderer.materials, h)) IN
         /\ get_tag(m) \in DOMAIN renderer.shaders
         /\ ~LookupDraw(m).panicked
         /\ LookupDraw(m).calls[1].op = "bind")
  /\ [][\A t \in DOMAIN renderer.shaders :
          /\ t \in DOMAIN renderer'.shaders
          /\ renderer'.shaders[t] = renderer.shaders[t]]_vars

\* A stored material whose tag was compiled for a material removed since,
\* after another tag was cached and a camera was removed.
C17_Witness ==
  /\ ~panicked
  /\ renderer.cameras.generation > 0
  /\ Cardinality(DOMAIN renderer.shaders) = 2
  /\ ctx.create_shader = 2
  /\ \E e1, e2 \in issued["materials"] :
       /\ e1.removed
       /\ ~e2.removed
       /\ e1.handle.generation = 0
       /\ e2.handle.generation = 2
       /\ get_tag(e1.value) = get_tag(e2.value)
       /\ ArenaGet(renderer.materials, e2.handle) = Some(e2.value)

\* ------------------------------------------------------------------ glTF import
\* An interchange accessor: whether it has a sparse descriptor, its buffer
\* view (if any) and its element count.
AccessorDef(sparse, view, count) == [sparse |-> sparse, view |-> view, count |-> count]

\* An interchange primitive: its index accessor (if any) and its attribute
\* accessors by semantic.
PrimitiveDef(indices, attributes) == [indices |-> indices, attributes |-> attributes]

\* is_index_buffer: some primitive of some mesh uses accessor acc_idx as its indices.
IsIndexBuffer(doc, acc_idx) ==
  \E m \in DOMAIN doc.meshes : \E q \in DOMAIN doc.meshes[m] :
    doc.meshes[m][q].indices = Some(acc_idx)

DefaultOptions == [component_type |-> "Float32"]

\* The sparse check made only for the first accessor of the document.
SparseRejectedFirstOnly(doc, i) == i = 0 /\ doc.accessors[i + 1].sparse

\* The check at the head of the loop body, for the accessor of index i.
SparseRejected(doc, i) == doc.accessors[i + 1].sparse

RECURSIVE ImportAccessorsNoReuse(_, _, _)
\* The loop creating a buffer for every accessor that has a view, never
\* looking the view up in buffer_indices.
ImportAccessorsNoReuse(doc, i, st) ==
  IF i >= Len(doc.accessors) \/ st.panicked THEN st
  ELSE LET accessor_def == doc.accessors[i + 1] IN
       IF SparseRejected(doc, i) THEN [st EXCEPT !.panicked = TRUE]
       ELSE IF IsSome(accessor_def.view)
       THEN LET view_index == Unwrap(accessor_def.view)
                buffer_target == IF IsIndexBuffer(doc, i) THEN "ElementArrayBuffer"
                                 ELSE "ArrayBuffer"
                handle == ArenaInsertHandle(st.buffers) IN
            IF ~doc.blob THEN [st EXCEPT !.panicked = TRUE]
            ELSE ImportAccessorsNoReuse(doc, i + 1,
                   [st EXCEPT
                      !.buffers = ArenaInsert(@, [id |-> st.create_buffer + 1,
                                                  target |-> buffer_target,
                                                  view |-> view_index]),
                      !.create_buffer = @ + 1,
                      !.attributes = Append(@, [buffer |-> handle, options |-> DefaultOptions])])
       ELSE ImportAccessorsNoReuse(doc, i + 1,
              [st EXCEPT !.attributes =
                 Append(@, [buffer |-> Idx(0, 0), options |-> DefaultOptions])])

RECURSIVE ImportAccessors(_, _, _)
\* The loop of create_gltf_attributes from accessor index i on; st holds the
\* attributes pushed so far, buffer_indices, the buffers arena, the number of
\* buffers the context created and whether the import panicked.
ImportAccessors(doc, i, st) ==
  IF i >= Len(doc.accessors) \/ st.panicked THEN st
  ELSE LET accessor_def == doc.accessors[i + 1] IN
       IF SparseRejected(doc, i) THEN [st EXCEPT !.panicked = TRUE]
       ELSE IF IsSome(accessor_def.view)
       THEN LET view_index == Unwrap(accessor_def.view) IN
            IF ~doc.blob THEN [st EXCEPT !.panicked = TRUE]
            ELSE IF view_index \in DOMAIN st.buffer_indices
            THEN ImportAccessors(doc, i + 1,
                   [st EXCEPT !.attributes =
                      Append(@, [buffer |-> st.buffer_indices[view_index],
                                 options |-> DefaultOptions])])
            ELSE LET buffer_target == IF IsIndexBuffer(doc, i) THEN "ElementArrayBuffer"
                                      ELSE "ArrayBuffer"
                     handle == ArenaInsertHandle(st.buffers) IN
                 ImportAccessors(doc, i + 1,
                   [st EXCEPT
                      !.buffers = ArenaInsert(@, [id |-> st.create_buffer + 1,
                                                  target |-> buffer_target,
                                                  view |-> view_index]),
                      !.create_buffer = @ + 1,
                      !.buffer_indices =
                         [v \in (DOMAIN @) \cup {view_index} |->
                            IF v = view_index THEN handle ELSE @[v]],
                      !.attributes = Append(@, [buffer |-> handle, options |-> DefaultOptions])])
       ELSE ImportAccessors(doc, i + 1,
              [st EXCEPT !.attributes =
                 Append(@, [buffer |-> Idx(0, 0), options |-> DefaultOptions])])

\* create_gltf_attributes(gltf, renderer)
CreateGltfAttributes(doc) ==
  /\ ~panicked
  /\ gltf = None
  /\ LET st == ImportAccessors(doc, 0,
                 [attributes |-> <<>>, buffer_indices |-> <<>>,
                  buffers |-> renderer.buffers, create_buffer |-> ctx.create_buffer,
                  panicked |-> FALSE]) IN
       /\ gltf' = Some(doc)
       /\ renderer' = [renderer EXCEPT !.buffers = st.buffers]
       /\ ctx' = [ctx EXCEPT !.create_buffer = st.create_buffer]
       /\ panicked' = st.panicked
       /\ imported' = IF st.panicked THEN None ELSE Some(st.attributes)
  /\ frame' = None
  /\ UNCHANGED <<issued, tags_seen, gltf_meshes>>

\* The attribute name a semantic of the interchange format is stored under.
AttributeNameOf(semantic) ==
  CASE semantic = "Positions" -> <<"Position">>
    [] semantic = "Normals" -> <<"Normal">>
    [] semantic = "TexCoords(0)" -> <<"Uv">>
    [] OTHER -> <<"Unknown", semantic>>

\* A geometry as create_gltf_meshes builds it: the attributes by name, the
\* index attribute and the count.
GltfGeometry(attributes, indices, count) ==
  [attributes |-> attributes, indices |-> indices, count |-> count]

\* HashMap::insert: the entry under key, replaced or added.
MapInsert(map, key, value) ==
  [k \in (DOMAIN map) \cup {key} |-> IF k = key THEN value ELSE map[k]]

RECURSIVE CollectAttributes(_, _, _, _, _)
\* The loop over primitive_def.attributes(), which yields the semantics in the
\* order semantics, from position k on; acc holds attributes and count.
CollectAttributes(doc, primitive_def, all_attributes, semantics, acc) ==
  IF semantics = <<>> THEN acc
  ELSE LET semantic_def == Head(semantics) IN
       IF semantic_def \in DOMAIN primitive_def.attributes
       THEN LET accessor_index == primitive_def.attributes[semantic_def] IN
            CollectAttributes(doc, primitive_def, all_attributes, Tail(semantics),
              [attributes |-> MapInsert(acc.attributes, AttributeNameOf(semantic_def),
                                        all_attributes[accessor_index + 1]),
               count |-> doc.accessors[accessor_index + 1].count])
       ELSE CollectAttributes(doc, primitive_def, all_attributes, Tail(semantics), acc)

\* The primitive built with the count of the attributes kept for an indexed primitive.
ImportPrimitiveKeepingCount(doc, primitive_def, all_attributes, semantics) ==
  LET collected == CollectAttributes(doc, primitive_def, all_attributes, semantics,
                                     [attributes |-> <<>>, count |-> 0])
      indices == IF IsSome(primitive_def.indices)
                 THEN Some(all_attributes[Unwrap(primitive_def.indices) + 1])
                 ELSE None IN
  [geometry |-> GltfGeometry(collected.attributes, indices, collected.count),
   material |-> "PBR"]

\* The body of the loop over a mesh's primitives.
ImportPrimitive(doc, primitive_def, all_attributes, semantics) ==
  LET collected == CollectAttributes(doc, primitive_def, all_attributes, semantics,
                                     [attributes |-> <<>>, count |-> 0])
      indices == IF IsSome(primitive_def.indices)
                 THEN Some(all_attributes[Unwrap(primitive_def.indices) + 1])
                 ELSE None
      count == IF IsSome(primitive_def.indices)
               THEN doc.accessors[Unwrap(primitive_def.indices) + 1].count
               ELSE collected.count IN
  [geometry |-> GltfGeometry(collected.attributes, indices, count),
   material |-> "PBR"]

\* create_gltf_meshes(gltf, all_attributes) when the attribute maps of the
\* document are iterated in the order semantics.
ImportMeshes(doc, all_attributes, semantics) ==
  [m \in DOMAIN doc.meshes |->
     [primitives |->
        [q \in DOMAIN doc.meshes[m] |->
           ImportPrimitive(doc, doc.meshes[m][q], all_attributes, semantics)],
      name |-> None]]

Semantics == {"Positions", "TexCoords(1)"}

\* create_gltf_meshes on the document and the list create_gltf_attributes returned.
CreateGltfMeshes(semantics) ==
  /\ ~panicked
  /\ IsSome(gltf)
  /\ IsSome(imported)
  /\ gltf_meshes = None
  /\ gltf_meshes' = Some(ImportMeshes(Unwrap(gltf), Unwrap(imported), semantics))
  /\ UNCHANGED <<renderer, ctx, frame, panicked, issued, tags_seen, gltf, imported>>

\* ------------------------------------------------------------------ import specification
Views == 0..(MaxViews - 1)

AccessorDefs ==
  {AccessorDef(sp, v, c) : sp \in BOOLEAN, v \in {None} \cup {Some(w) : w \in Views}, c \in {6}}

AccessorLists == UNION {[1..n -> AccessorDefs] : n \in 1..MaxAccessorDefs}

\* Documents with one mesh of one primitive, indexed or not.
Documents ==
  {[accessors |-> as, blob |-> b,
    meshes |-> <<<<PrimitiveDef(ind, <<>>)>>>>] :
     as \in AccessorLists, b \in BOOLEAN,
     ind \in {None} \cup {Some(j) : j \in 0..(MaxAccessorDefs - 1)}}

WellFormed(doc) ==
  \A m \in DOMAIN doc.meshes : \A q \in DOMAIN doc.meshes[m] :
    IsSome(doc.meshes[m][q].indices) => Unwrap(doc.meshes[m][q].indices) < Len(doc.accessors)

NextImport ==
  \/ \E ok \in BOOLEAN : InsertBuffer("ArrayBuffer", ok)
  \/ gltf = None /\ \E h \in HandlesOf(renderer.buffers) : ArenaRemoveOp("buffers", h)
  \/ gltf = None /\ \E doc \in Documents : WellFormed(doc) /\ CreateGltfAttributes(doc)

SpecImport == Init /\ [][NextImport]_vars

\* C10: the import of a document with a sparse accessor at any position of the
\* accessor list aborts and returns no accessor list.
C10_SparseRejected ==
  IsSome(gltf) =>
    ((\E i \in DOMAIN Unwrap(gltf).accessors : Unwrap(gltf).accessors[i].sparse)
       => panicked /\ imported = None)

\* A sparse accessor after an accessor whose buffer had been created.
C10_Witness ==
  /\ IsSome(gltf)
  /\ Len(Unwrap(gltf).accessors) = 3
  /\ ~Unwrap(gltf).accessors[1].sparse
  /\ IsSome(Unwrap(gltf).accessors[1].view)
  /\ ~Unwrap(gltf).accessors[2].sparse
  /\ Unwrap(gltf).accessors[3].sparse
  /\ Unwrap(gltf).blob
  /\ renderer.buffers.len > 0
  /\ panicked
  /\ imported = None

\* ---- what the import returned, read off the document and the renderer
Doc == Unwrap(gltf)

Imported == Unwrap(imported)

\* The indices of the document's accessors that have a buffer view.
Viewed == {i \in DOMAIN Doc.accessors : IsSome(Doc.accessors[i].view)}

ViewOf(i) == Unwrap(Doc.accessors[i].view)

\* The buffers the import created: those that hold the data of a view.
ImportBuffers ==
  {h \in LiveHandles(renderer.buffers) : "view" \in DOMAIN Unwrap(ArenaGet(renderer.buffers, h))}

BufferAt(h) == Unwrap(ArenaGet(renderer.buffers, h))

\* C11: an import that returns has created one buffer per distinct view the
\* accessors reference and one entry per accessor; two accessors of one view
\* hold the same buffer handle, accessors of different views different handles.
C11_OneBufferPerView ==
  IsSome(imported) =>
    /\ Len(Imported) = Len(Doc.accessors)
    /\ Cardinality(ImportBuffers) = Cardinality({ViewOf(i) : i \in Viewed})
    /\ \A i, j \in Viewed :
         (ViewOf(i) = ViewOf(j)) <=> (Imported[i].buffer = Imported[j].buffer)

\* Three accessors over two views, imported into an arena that held a buffer
\* and had a freed slot.
C11_Witness ==
  /\ IsSome(imported)
  /\ renderer.buffers.generation > 0
  /\ Len(Imported) = 3
  /\ Viewed = {1, 2, 3}
  /\ ViewOf(1) = ViewOf(3)
  /\ ViewOf(1) # ViewOf(2)
  /\ Imported[1].buffer = Imported[3].buffer
  /\ Imported[1].buffer # Imported[2].buffer
  /\ Cardinality(ImportBuffers) = 2

\* Some primitive of the document takes its indices from an accessor of the view.
ViewIsIndexed(view) ==
  \E i \in Viewed :
    /\ ViewOf(i) = view
    /\ IsIndexBuffer(Doc, i - 1)

\* C12: every buffer the import created is an element-array buffer if some
\* primitive takes its indices from an accessor of the buffer's view, whatever
\* the position of that accessor among those of the view, and a vertex-array
\* buffer if none does.
C12_TargetByIndexUse ==
  IsSome(imported) =>
    \A h \in ImportBuffers :
      BufferAt(h).target =
        IF ViewIsIndexed(BufferAt(h).view) THEN "ElementArrayBuffer" ELSE "ArrayBuffer"

\* C18: the returned list has one entry per accessor, and every entry's buffer
\* handle resolves to the buffer the import created for that accessor's view.
C18_EntriesHoldOwnBuffer ==
  IsSome(imported) =>
    /\ Len(Imported) = Len(Doc.accessors)
    /\ \A i \in DOMAIN Doc.accessors :
         /\ Imported[i].buffer \in ImportBuffers
         /\ i \in Viewed
         /\ BufferAt(Imported[i].buffer).view = ViewOf(i)

\* ------------------------------------------------------------------ mesh import specification
AccessorCounts == {6, 12}

MeshAccessorDefs ==
  {AccessorDef(FALSE, v, c) : v \in {None, Some(0)}, c \in AccessorCounts}

AccessorRefs == 0..(MaxAccessorDefs - 1)

\* Documents with one mesh of one primitive that has any of the semantics.
MeshDocuments ==
  {[accessors |-> as, blob |-> TRUE, meshes |-> <<<<PrimitiveDef(ind, at)>>>>] :
     as \in UNION {[1..n -> MeshAccessorDefs] : n \in 1..MaxAccessorDefs},
     ind \in {None} \cup {Some(j) : j \in AccessorRefs},
     at \in UNION {[S -> AccessorRefs] : S \in SUBSET Semantics}}

\* Every accessor a primitive names is an accessor of the document.
MeshWellFormed(doc) ==
  /\ WellFormed(doc)
  /\ \A m \in DOMAIN doc.meshes : \A q \in DOMAIN doc.meshes[m] :
       \A sem \in DOMAIN doc.meshes[m][q].attributes :
         doc.meshes[m][q].attributes[sem] < Len(doc.accessors)

NextMeshes ==
  \/ gltf = None /\ \E doc \in MeshDocuments : MeshWellFormed(doc) /\ CreateGltfAttributes(doc)
  \/ \E semantics \in SeqsOver(Semantics) : CreateGltfMeshes(semantics)

SpecMeshes == Init /\ [][NextMeshes]_vars

GltfMeshes == Unwrap(gltf_meshes)

\* C13: an imported primitive's geometry count is the index accessor's count
\* when the primitive has indices, else the count of one of its attribute
\* accessors, and it is 0 only for a primitive with neither.
C13_GeometryCount ==
  IsSome(gltf_meshes) =>
    /\ DOMAIN GltfMeshes = DOMAIN Doc.meshes
    /\ \A m \in DOMAIN Doc.meshes :
         /\ DOMAIN GltfMeshes[m].primitives = DOMAIN Doc.meshes[m]
         /\ \A q \in DOMAIN Doc.meshes[m] :
              LET primitive_def == Doc.meshes[m][q]
                  count == GltfMeshes[m].primitives[q].geometry.count IN
              /\ IsSome(primitive_def.indices) =>
                   count = Doc.accessors[Unwrap(primitive_def.indices) + 1].count
              /\ (primitive_def.indices = None /\ DOMAIN primitive_def.attributes # {}) =>
                   \E sem \in DOMAIN primitive_def.attributes :
                     count = Doc.accessors[primitive_def.attributes[sem] + 1].count
              /\ count = 0 =>
                   (primitive_def.indices = None /\ DOMAIN primitive_def.attributes = {})

\* An indexed primitive of 12 indices whose attribute accessors hold 6 elements.
C13_Witness ==
  /\ IsSome(gltf_meshes)
  /\ LET primitive_def == Doc.meshes[1][1] IN
       /\ IsSome(primitive_def.indices)
       /\ Doc.accessors[Unwrap(primitive_def.indices) + 1].count = 12
       /\ DOMAIN primitive_def.attributes = Semantics
       /\ \A sem \in Semantics : Doc.accessors[primitive_def.attributes[sem] + 1].count = 6
       /\ GltfMeshes[1].primitives[1].geometry.count = 12
       /\ DOMAIN GltfMeshes[1].primitives[1].geometry.attributes =
            {<<"Position">>, <<"Unknown", "TexCoords(1)">>}

====
